---- MODULE Spec2Model ----
(***************************************************************************)
(* The collaboration-network view (ArtVisCollaborationNetwork.tsx) as a    *)
(* state machine: the JSON document behind the fetch, the React state      *)
(* (data, minEdgeWeight), the node-weight computation run on load, the     *)
(* filter filteredData() and the render effect that hands the filtered     *)
(* view to d3 (forceSimulation / forceLink) and draws it into the SVG.     *)
(***************************************************************************)
EXTENDS Integers, Sequences, FiniteSets, TLC

VARIABLES json, status, data, minEdgeWeight, svg, view, simulations, fetches,
          hovered, lastHover, linkAttrs, nodeAttrs, tooltip,
          geoJson, loadData, mapData, exhibitionData, worldMap, geoData,
          year, minExhibitions, maxExhibitions, sortConfig, paths,
          artistJson, loadData3, mapData3, worldMap3, data3, filteredData3,
          artists, years, selectedArtist, selectedYear, drawn3

\* What the pointer and the hover handlers have made of the drawing.
hoverVars == <<hovered, lastHover, linkAttrs, nodeAttrs, tooltip>>

\* The collaboration view's variables.
artVisVars == <<json, status, data, minEdgeWeight, svg, view, simulations, fetches, hoverVars>>

\* The exhibition heatmap's variables (GeoView1.tsx): the document behind
\* /data/1_geographic_timeline.json, the position in loadData and its locals,
\* the React state, and the fills of the drawn country shapes.
geoView1Vars ==
    <<geoJson, loadData, mapData, exhibitionData, worldMap, geoData,
      year, minExhibitions, maxExhibitions, sortConfig, paths>>

\* The artist timeline's variables (GeoView3.tsx): the document behind
\* /data/year_artist_data.json, the position in loadData and its local, the
\* React state, and the entries the drawn map is coloured from.
geoView3Vars ==
    <<artistJson, loadData3, mapData3, worldMap3, data3, filteredData3,
      artists, years, selectedArtist, selectedYear, drawn3>>

\* The views that are not on the page while the collaboration view is.
otherViews == <<geoView1Vars, geoView3Vars>>

vars == <<artVisVars, otherViews>>

\* GeoView1 is not mounted.
GeoView1Idle ==
    /\ geoJson = << >>
    /\ loadData = "unmounted"
    /\ mapData = "null"
    /\ exhibitionData = << >>
    /\ worldMap = "null"
    /\ geoData = << >>
    /\ year = 0
    /\ minExhibitions = 0
    /\ maxExhibitions = 0
    /\ sortConfig = << >>
    /\ paths = << >>

\* GeoView3 is not mounted.
GeoView3Idle ==
    /\ artistJson = << >>
    /\ loadData3 = "unmounted"
    /\ mapData3 = "null"
    /\ worldMap3 = "null"
    /\ data3 = << >>
    /\ filteredData3 = << >>
    /\ artists = << >>
    /\ years = << >>
    /\ selectedArtist = << >>
    /\ selectedYear = << >>
    /\ drawn3 = << >>

OtherViewsIdle == GeoView1Idle /\ GeoView3Idle

(***************************************************************************)
(* Bounds of the model.                                                    *)
(***************************************************************************)
MaxNode == 2
MaxLinks == 2
MaxWeight == 1
MaxSimulations == 2
MaxMissing == 2
MaxCount == 1
MaxYearSpan == 1

(***************************************************************************)
(* Program constants.                                                      *)
(***************************************************************************)
InitialMinEdgeWeight == 1
SliderMin == 1
SliderMax == 100
InitialYear == 1905
YearMin == 1902
YearMax == 1915
InitialMinExhibitions == 1
InitialMaxExhibitions == 5000

(***************************************************************************)
(* JavaScript values.  An optional number is a sequence of length at most  *)
(* one: << >> is undefined, <<n>> is the number n.                         *)
(***************************************************************************)
Undefined == << >>
Number(n) == <<n>>
IsNumber(v) == Len(v) = 1
OrZero(v) == IF IsNumber(v) THEN v[1] ELSE 0

Range(s) == {s[i] : i \in 1..Len(s)}

(***************************************************************************)
(* LinkDatum.source / .target : number | NodeDatum.  A bare id carries the *)
(* number in num and has no id property; an embedded node object carries   *)
(* its id property.                                                        *)
(***************************************************************************)
BareId(n) == [type |-> "number", num |-> Number(n), id |-> Undefined]
NodeObject(n) == [type |-> "object", num |-> Undefined, id |-> Number(n)]

NodeDatum(n) ==
    [id |-> n, nationality |-> Undefined, weight |-> Undefined, exhibitions_count |-> Undefined]
\* A JavaScript string that is present.
String(x) == <<x>>
Artist(n, nat) == [NodeDatum(n) EXCEPT !.nationality = String(nat)]
LinkDatum(s, t, w) == [source |-> s, target |-> t, weight |-> w]

NoData == [null |-> TRUE, nodes |-> << >>, links |-> << >>]
GraphData(nodes, links) == [null |-> FALSE, nodes |-> nodes, links |-> links]

(***************************************************************************)
(* The documents the fetch may deliver.                                    *)
(***************************************************************************)
Weights == {Undefined} \cup {Number(k) : k \in 1..MaxWeight}
NodeList(n) == [i \in 1..n |-> NodeDatum(i)]
LinkAlphabet ==
    {LinkDatum(BareId(s), BareId(t), w) : s \in 1..MaxNode, t \in 1..MaxNode, w \in Weights}
LinkLists == UNION {[1..k -> LinkAlphabet] : k \in 0..MaxLinks}
GeneratedDocuments == {GraphData(NodeList(MaxNode), ls) : ls \in LinkLists}

ScenarioA ==
    GraphData(<<NodeDatum(1), NodeDatum(2), NodeDatum(3)>>,
              <<LinkDatum(BareId(1), BareId(2), Number(5)),
                LinkDatum(BareId(2), BareId(3), Number(2)),
                LinkDatum(BareId(1), BareId(1), Number(9))>>)
ScenarioAEmbedded ==
    GraphData(<<NodeDatum(1), NodeDatum(2), NodeDatum(3)>>,
              <<LinkDatum(NodeObject(1), NodeObject(2), Number(5)),
                LinkDatum(BareId(2), NodeObject(3), Number(2)),
                LinkDatum(NodeObject(1), NodeObject(1), Number(9))>>)
ScenarioC ==
    GraphData(<<NodeDatum(1), NodeDatum(2), NodeDatum(3)>>,
              <<LinkDatum(BareId(1), BareId(2), Number(5)),
                LinkDatum(BareId(2), BareId(99), Number(5))>>)
ScenarioZeroWeight ==
    GraphData(<<NodeDatum(1), NodeDatum(2), NodeDatum(3)>>,
              <<LinkDatum(BareId(1), BareId(2), Number(0)),
                LinkDatum(BareId(3), BareId(2), Number(1))>>)
ScenarioNationalities ==
    GraphData(<<Artist(1, "FR"), Artist(2, "DE"), Artist(3, "AT"), NodeDatum(4)>>,
              <<LinkDatum(BareId(1), BareId(2), Number(5)),
                LinkDatum(BareId(2), BareId(3), Number(2)),
                LinkDatum(BareId(3), BareId(4), Number(1))>>)
ScenarioDocuments ==
    {ScenarioA, ScenarioAEmbedded, ScenarioC, ScenarioZeroWeight, ScenarioNationalities}

Documents == GeneratedDocuments \cup ScenarioDocuments

ScenarioThresholds == {3, 10}
SliderInputs == {v \in SliderMin..SliderMax : v <= MaxWeight + 1}
Thresholds == (0..(MaxWeight + 1)) \cup ScenarioThresholds
\* Variant: an input without the min and max attributes.
LifecycleSliderInputs_Unbounded ==
    {v \in (SliderMin - 1)..(SliderMax + 1) :
        v <= MaxWeight + 1 \/ v \in ScenarioThresholds \/ v >= SliderMax}
LifecycleSliderInputs ==
    {v \in SliderMin..SliderMax :
        v <= MaxWeight + 1 \/ v \in ScenarioThresholds \/ v = SliderMax}

(***************************************************************************)
(* typeof link.source === 'object' ? link.source.id : link.source          *)
(***************************************************************************)
\* Variant: link.source is used as it is, without the typeof test.
EndpointId_AsGiven(e) == e.num

EndpointId(e) == IF e.type = "object" THEN e.id ELSE e.num
sourceId(link) == EndpointId(link.source)
targetId(link) == EndpointId(link.target)

(***************************************************************************)
(* Map<number, number>                                                     *)
(***************************************************************************)
EmptyMap == [k \in {} |-> 0]
MapGet(m, k) == IF k \in DOMAIN m THEN Number(m[k]) ELSE Undefined
MapSet(m, k, v) == [x \in (DOMAIN m) \cup {k} |-> IF x = k THEN v ELSE m[x]]

(***************************************************************************)
(* fetchCollaborationData, lines 49-63: the forEach over jsonData.links.   *)
(***************************************************************************)
\* Variant: the target is credited even when it is the source (a self-loop
\* counted twice).
AddLinkWeight_SelfLoopTwice(m, link) ==
    LET s == sourceId(link)
        t == targetId(link)
        weight == OrZero(link.weight)
    IN  IF IsNumber(s) /\ IsNumber(t)
        THEN LET m1 == MapSet(m, s[1], OrZero(MapGet(m, s[1])) + weight)
             IN  MapSet(m1, t[1], OrZero(MapGet(m1, t[1])) + weight)
        ELSE m

\* Variant: a self-loop is left out of the accumulation altogether.
AddLinkWeight_SelfLoopOmitted(m, link) ==
    LET s == sourceId(link)
        t == targetId(link)
        weight == OrZero(link.weight)
    IN  IF IsNumber(s) /\ IsNumber(t) /\ s # t
        THEN LET m1 == MapSet(m, s[1], OrZero(MapGet(m, s[1])) + weight)
             IN  MapSet(m1, t[1], OrZero(MapGet(m1, t[1])) + weight)
        ELSE m

\* Variant: the map entry is overwritten with the link's weight instead of
\* being increased by it.
AddLinkWeight_Overwrite(m, link) ==
    LET s == sourceId(link)
        t == targetId(link)
        weight == OrZero(link.weight)
    IN  IF IsNumber(s) /\ IsNumber(t)
        THEN LET m1 == MapSet(m, s[1], weight)
             IN  IF s # t THEN MapSet(m1, t[1], weight) ELSE m1
        ELSE m

AddLinkWeight(m, link) ==
    LET s == sourceId(link)
        t == targetId(link)
        weight == OrZero(link.weight)
    IN  IF IsNumber(s) /\ IsNumber(t)
        THEN LET m1 == MapSet(m, s[1], OrZero(MapGet(m, s[1])) + weight)
             IN  IF s # t
                 THEN MapSet(m1, t[1], OrZero(MapGet(m1, t[1])) + weight)
                 ELSE m1
        ELSE m

RECURSIVE ForEachLink(_, _, _)
ForEachLink(links, i, m) ==
    IF i > Len(links) THEN m
    ELSE ForEachLink(links, i + 1, AddLinkWeight(m, links[i]))

nodeWeights(links) == ForEachLink(links, 1, EmptyMap)

(***************************************************************************)
(* fetchCollaborationData, lines 65-69: jsonData.nodes.map(...)            *)
(***************************************************************************)
\* Variant: nodeWeights.get(node.id) without the "|| 0" default.
WithWeights_NoDefault(jsonData) ==
    LET nw == ForEachLink(jsonData.links, 1, EmptyMap)
    IN  [jsonData EXCEPT !.nodes =
            [i \in 1..Len(jsonData.nodes) |->
                [jsonData.nodes[i] EXCEPT
                    !.weight = MapGet(nw, jsonData.nodes[i].id),
                    !.exhibitions_count = MapGet(nw, jsonData.nodes[i].id)]]]

WithWeights(jsonData) ==
    LET nw == nodeWeights(jsonData.links)
    IN  [jsonData EXCEPT !.nodes =
            [i \in 1..Len(jsonData.nodes) |->
                [jsonData.nodes[i] EXCEPT
                    !.weight = Number(OrZero(MapGet(nw, jsonData.nodes[i].id))),
                    !.exhibitions_count = Number(OrZero(MapGet(nw, jsonData.nodes[i].id)))]]]

(***************************************************************************)
(* filteredData, lines 78-105, with the closure's data and minEdgeWeight   *)
(* as parameters.                                                          *)
(***************************************************************************)
\* Variant: the self-loop test is missing.
KeepLink_SelfLoopsKept(link, w) == OrZero(link.weight) >= w

\* Variant: the comparison is inverted.
KeepLink_AtMost(link, w) == OrZero(link.weight) <= w /\ sourceId(link) # targetId(link)

\* Variant: the comparison is strict.
KeepLink_Strict(link, w) == OrZero(link.weight) > w /\ sourceId(link) # targetId(link)

KeepLink(link, w) == OrZero(link.weight) >= w /\ sourceId(link) # targetId(link)
\* Variant: the retained links are normalised copies, {...link, source:
\* sourceId, target: targetId}, not the link objects of data.links.
validLinks_NormalizedCopies(d, w) ==
    LET kept == SelectSeq(d.links, LAMBDA link : OrZero(link.weight) >= w
                                                  /\ sourceId(link) # targetId(link))
    IN  [i \in 1..Len(kept) |->
            [kept[i] EXCEPT !.source = BareId(sourceId(kept[i])[1]),
                            !.target = BareId(targetId(kept[i])[1])]]

validLinks(d, w) == SelectSeq(d.links, LAMBDA link : KeepLink(link, w))
\* Variant: only the source of a retained link counts as connected.
connectedNodeIds_SourceOnly(links) == {sourceId(l) : l \in Range(links)}

connectedNodeIds(links) == UNION {{sourceId(l), targetId(l)} : l \in Range(links)}
\* Variant: the connected ids are collected from data.links, not validLinks.
validNodes_FromAllLinks(d, w) ==
    LET ids == connectedNodeIds(d.links)
    IN  SelectSeq(d.nodes, LAMBDA node : Number(node.id) \in ids)

\* Variant: the retained nodes get their weight recomputed from the retained
\* links.
validNodes_Reweighted(d, w) ==
    LET kept == validLinks(d, w)
        ids == connectedNodeIds(kept)
        nw == nodeWeights(kept)
        chosen == SelectSeq(d.nodes, LAMBDA node : Number(node.id) \in ids)
    IN  [i \in 1..Len(chosen) |->
            [chosen[i] EXCEPT !.weight = Number(OrZero(MapGet(nw, chosen[i].id)))]]

validNodes(d, w) ==
    LET ids == connectedNodeIds(validLinks(d, w))
    IN  SelectSeq(d.nodes, LAMBDA node : Number(node.id) \in ids)
\* Variant: every node of the graph is returned, connected or not.
filteredData_AllNodes(d, w) ==
    IF d.null THEN [nodes |-> << >>, links |-> << >>]
    ELSE [nodes |-> d.nodes, links |-> validLinks(d, w)]

filteredData(d, w) ==
    IF d.null THEN [nodes |-> << >>, links |-> << >>]
    ELSE [nodes |-> validNodes(d, w), links |-> validLinks(d, w)]

(***************************************************************************)
(* d3.forceLink(links).id(d => d.id) once registered with the simulation:  *)
(* every link of the filtered view, in order, has a bare source and then a *)
(* bare target replaced by the node object with that id; a bare id with no *)
(* node among the simulation's nodes throws "node not found".  The links   *)
(* of the view are the objects of data.links, so data.links changes.       *)
(***************************************************************************)
Resolve(e, ids) ==
    IF e.type = "object" THEN [end |-> e, thrown |-> FALSE]
    ELSE IF e.num[1] \in ids THEN [end |-> NodeObject(e.num[1]), thrown |-> FALSE]
    ELSE [end |-> e, thrown |-> TRUE]

\* Variant: the target is looked up with the source's id.
RECURSIVE InitializeLinks_TargetFromSource(_, _, _, _)
InitializeLinks_TargetFromSource(links, w, ids, i) ==
    IF i > Len(links) THEN [links |-> links, thrown |-> FALSE]
    ELSE IF ~KeepLink(links[i], w) THEN InitializeLinks_TargetFromSource(links, w, ids, i + 1)
    ELSE LET s == Resolve(links[i].source, ids)
             t == IF links[i].target.type = "object"
                  THEN [end |-> links[i].target, thrown |-> FALSE]
                  ELSE Resolve(links[i].source, ids)
         IN  IF s.thrown THEN [links |-> links, thrown |-> TRUE]
             ELSE IF t.thrown
                  THEN [links |-> [links EXCEPT ![i].source = s.end], thrown |-> TRUE]
                  ELSE InitializeLinks_TargetFromSource(
                           [links EXCEPT ![i].source = s.end, ![i].target = t.end],
                           w, ids, i + 1)

RECURSIVE InitializeLinks(_, _, _, _)
InitializeLinks(links, w, ids, i) ==
    IF i > Len(links) THEN [links |-> links, thrown |-> FALSE]
    ELSE IF ~KeepLink(links[i], w) THEN InitializeLinks(links, w, ids, i + 1)
    ELSE LET s == Resolve(links[i].source, ids)
             t == Resolve(links[i].target, ids)
         IN  IF s.thrown THEN [links |-> links, thrown |-> TRUE]
             ELSE IF t.thrown
                  THEN [links |-> [links EXCEPT ![i].source = s.end], thrown |-> TRUE]
                  ELSE InitializeLinks(
                           [links EXCEPT ![i].source = s.end, ![i].target = t.end],
                           w, ids, i + 1)

forceLink(d, w) ==
    InitializeLinks(d.links, w, {n.id : n \in Range(validNodes(d, w))}, 1)

(***************************************************************************)
(* colorScale, lines 30-41: a d3.scaleOrdinal over the sorted distinct     *)
(* nationalities of data.nodes, memoised on data. A colour is modelled by  *)
(* its index in d3.schemeCategory10.                                       *)
(***************************************************************************)
PaletteSize == 10

\* d.nationality || 'Unknown'
NationalityOf(node) ==
    IF node.nationality = Undefined \/ node.nationality = String("")
    THEN "Unknown"
    ELSE node.nationality[1]

\* The nationality strings of the inputs in ascending order of UTF-16 code
\* units, the order of Array.prototype.sort() without a comparator.
CodeUnitOrder ==
    <<"AT", "BE", "CH", "CZ", "DE", "ES", "FR", "GB", "HU", "IT", "NL", "PL", "US",
      "Unknown">>
Sort(list) == SelectSeq(CodeUnitOrder, LAMBDA x : x \in Range(list))

\* Array.from(new Set(list)): the distinct elements in order of first
\* occurrence.
RECURSIVE ArrayFromSet(_, _, _)
ArrayFromSet(list, i, acc) ==
    IF i > Len(list) THEN acc
    ELSE ArrayFromSet(list, i + 1,
            IF list[i] \in Range(acc) THEN acc ELSE Append(acc, list[i]))

uniqueNationalities(nodes) ==
    Sort(ArrayFromSet([i \in 1..Len(nodes) |-> NationalityOf(nodes[i])], 1, << >>))

\* Variant: the domain is left in order of first occurrence.
colorScale_Unsorted(d) ==
    IF d.null THEN << >>
    ELSE ArrayFromSet([i \in 1..Len(d.nodes) |-> NationalityOf(d.nodes[i])], 1, << >>)

\* The domain of the scale.
colorScale(d) ==
    IF d.null THEN << >> ELSE uniqueNationalities(d.nodes)

\* Variant: past the end of the range the last colour is used, no cycling.
ScaleOrdinal_NoCycle(domain, x) ==
    LET pos == IF x \in Range(domain)
               THEN (CHOOSE i \in 1..Len(domain) : domain[i] = x) - 1
               ELSE Len(domain)
    IN  IF pos < PaletteSize THEN pos ELSE PaletteSize - 1

\* scale(x) of an ordinal scale: the range element at the position of x in
\* the domain, cycling; a value not in the domain takes the next position.
ScaleOrdinal(domain, x) ==
    IF x \in Range(domain)
    THEN ((CHOOSE i \in 1..Len(domain) : domain[i] = x) - 1) % PaletteSize
    ELSE Len(domain) % PaletteSize

\* Line 155: the fill of a node's circle.
NodeFill(d, node) == ScaleOrdinal(colorScale(d), NationalityOf(node))

(***************************************************************************)
(* The render effect, lines 111-280, run by React after a commit that      *)
(* changed data or minEdgeWeight.  Its result: the graph object afterwards,*)
(* what the SVG shows, whether an exception left the effect, whether line  *)
(* 114 was reached and the {nodes, links} it computed (the same objects as *)
(* the graph's, so seen as they are afterwards), and the number of force   *)
(* simulations the run created (line 127).                                 *)
(***************************************************************************)
EmptySvg == [nodes |-> << >>, links |-> << >>]

\* Variant: an incremental update, which filters what is drawn (when something
\* is) instead of the whole graph.
RenderEffect_Incremental(d, w, drawn) ==
    LET base == IF d.null \/ Len(drawn.links) = 0
                THEN d ELSE GraphData(drawn.nodes, drawn.links)
        filtered == filteredData(base, w)
        fl == forceLink(base, w)
        after == [d EXCEPT !.links = IF Len(drawn.links) = 0 THEN fl.links ELSE d.links]
        shown == [nodes |-> filtered.nodes, links |-> validLinks([base EXCEPT !.links = fl.links], w)]
    IN  IF d.null
        THEN [data |-> d, svg |-> drawn, thrown |-> FALSE,
              computed |-> FALSE, view |-> EmptySvg, started |-> 0]
        ELSE IF Len(filtered.nodes) = 0 \/ Len(filtered.links) = 0
        THEN [data |-> d, svg |-> drawn, thrown |-> FALSE,
              computed |-> TRUE, view |-> filtered, started |-> 0]
        ELSE IF fl.thrown
        THEN [data |-> after, svg |-> EmptySvg, thrown |-> TRUE,
              computed |-> TRUE, view |-> shown, started |-> 1]
        ELSE [data |-> after, svg |-> shown, thrown |-> FALSE,
              computed |-> TRUE, view |-> shown, started |-> 1]

RenderEffect(d, w, drawn) ==
    LET filtered == filteredData(d, w)
        fl == forceLink(d, w)
        after == [d EXCEPT !.links = fl.links]
    IN  IF d.null
        THEN [data |-> d, svg |-> drawn, thrown |-> FALSE,
              computed |-> FALSE, view |-> EmptySvg, started |-> 0]
        ELSE IF Len(filtered.nodes) = 0 \/ Len(filtered.links) = 0
        THEN [data |-> d, svg |-> drawn, thrown |-> FALSE,
              computed |-> TRUE, view |-> filtered, started |-> 0]
        ELSE IF fl.thrown
        THEN [data |-> after, svg |-> EmptySvg, thrown |-> TRUE,
              computed |-> TRUE, view |-> filteredData(after, w), started |-> 1]
        ELSE [data |-> after, svg |-> filteredData(after, w), thrown |-> FALSE,
              computed |-> TRUE, view |-> filteredData(after, w), started |-> 1]

(***************************************************************************)
(* The attributes the render effect gives the drawn lines and circles,     *)
(* lines 136-157, and the hover handlers of the node groups, lines         *)
(* 170-238.  linkAttrs and nodeAttrs run parallel to the links and nodes   *)
(* drawn (svg.links, svg.nodes); the handlers close over the links and     *)
(* nodes of the render that attached them.                                 *)
(***************************************************************************)
DrawnLinkAttrs(drawn) ==
    [i \in 1..Len(drawn.links) |-> [stroke |-> "#999", opacity |-> "0.5"]]
DrawnNodeAttrs(drawn) ==
    [i \in 1..Len(drawn.nodes) |-> [stroke |-> "#fff", width |-> "2"]]

\* (link.source as NodeDatum).id: undefined on a bare number.
IdOf(e) == IF e.type = "number" THEN Undefined ELSE e.id

\* Lines 171-175.
connectedLinks(drawn, d) ==
    {i \in 1..Len(drawn.links) :
        IdOf(drawn.links[i].source) = Number(d) \/ IdOf(drawn.links[i].target) = Number(d)}

\* Lines 177-185: the ids of the nodes found for the other ends.
connectedNodes(drawn, d) ==
    LET otherNodeId(link) ==
            IF IdOf(link.source) = Number(d) THEN IdOf(link.target) ELSE IdOf(link.source)
    IN  {n.id : n \in {m \in Range(drawn.nodes) :
            \E i \in connectedLinks(drawn, d) : Number(m.id) = otherNodeId(drawn.links[i])}}

\* Lines 194-200.
HoverLinkAttrs(drawn, d) ==
    [i \in 1..Len(drawn.links) |->
        IF i \in connectedLinks(drawn, d)
        THEN [stroke |-> "#ff9900", opacity |-> "0.8"]
        ELSE [stroke |-> "#999", opacity |-> "0.2"]]

\* Lines 202-209.
HoverNodeAttrs(drawn, d) ==
    [i \in 1..Len(drawn.nodes) |->
        IF drawn.nodes[i].id \in connectedNodes(drawn, d) \/ d = drawn.nodes[i].id
        THEN [stroke |-> "#ff9900", width |-> "3"]
        ELSE [stroke |-> "#fff", width |-> "2"]]

\* No pointer event has reached a node and nothing is drawn; the tooltip div
\* is rendered with visibility: 'hidden', line 357.
NoPointer ==
    /\ hovered = Undefined
    /\ lastHover = "none"
    /\ linkAttrs = << >>
    /\ nodeAttrs = << >>
    /\ tooltip = "hidden"

(***************************************************************************)
(* State machine.                                                          *)
(***************************************************************************)
Init ==
    /\ json \in Documents
    /\ status = "pending"
    /\ data = NoData
    /\ minEdgeWeight = InitialMinEdgeWeight
    /\ svg = EmptySvg
    /\ view = EmptySvg
    /\ simulations = 0

\* fetchCollaborationData: the fetch and the parse succeed, lines 45-71,
\* then the effect of the commit.
FetchOk ==
    /\ status = "pending"
    /\ LET r == RenderEffect(WithWeights(json), minEdgeWeight, svg)
       IN  /\ data' = r.data
           /\ svg' = r.svg
           /\ view' = (IF r.computed THEN r.view ELSE view)
           /\ status' = IF r.thrown THEN "crashed" ELSE "loaded"
    /\ UNCHANGED <<json, minEdgeWeight>>

\* Variant: on failure the data state becomes a graph without nodes and links
\* instead of null.
FetchFail_EmptyGraph ==
    /\ status = "pending"
    /\ data' = GraphData(<< >>, << >>)
    /\ status' = "failed"
    /\ UNCHANGED <<json, minEdgeWeight, svg, view>>

\* fetchCollaborationData: the fetch rejects, the response is not ok or the
\* parse fails, lines 72-75.
FetchFail ==
    /\ status = "pending"
    /\ data' = NoData
    /\ status' = "failed"
    /\ UNCHANGED <<json, minEdgeWeight, svg, view>>

\* The range input's onChange, line 380, then the effect of the commit.
SetMinEdgeWeightTo(v) ==
    /\ status # "crashed"
    /\ v # minEdgeWeight
    /\ minEdgeWeight' = v
    /\ LET r == RenderEffect(data, v, svg)
       IN  /\ data' = r.data
           /\ svg' = r.svg
           /\ view' = (IF r.computed THEN r.view ELSE view)
           /\ status' = IF r.thrown THEN "crashed" ELSE status
    /\ UNCHANGED json

SetMinEdgeWeight == \E v \in SliderInputs : SetMinEdgeWeightTo(v)

\* The graph, the threshold and what is drawn, over every document.  The
\* timers of the force simulations are left where they are here; they are
\* followed in LifecycleSpec below.
\* The mount effect has issued its fetch.
GraphInit == Init /\ fetches = 1 /\ NoPointer /\ OtherViewsIdle
GraphFetchOk == FetchOk /\ UNCHANGED <<simulations, fetches, hoverVars, otherViews>>
GraphFetchFail == FetchFail /\ UNCHANGED <<simulations, fetches, hoverVars, otherViews>>
GraphSetMinEdgeWeight == SetMinEdgeWeight /\ UNCHANGED <<simulations, fetches, hoverVars, otherViews>>

(***************************************************************************)
(* The same handlers with the timers of the force simulations: every run   *)
(* of the render effect that reaches line 127 creates a simulation, whose  *)
(* timer runs until the simulation has cooled down; the effect returns no  *)
(* cleanup, so nothing stops a simulation earlier.  Followed over the      *)
(* scenario documents and a wider choice of slider values, from the first  *)
(* commit on: fetches counts the calls of fetchCollaborationData.          *)
(***************************************************************************)
LifecycleInit == Init /\ json \in ScenarioDocuments /\ fetches = 0 /\ NoPointer /\ OtherViewsIdle

\* The mount effect, lines 107-109: useEffect(() => { fetchCollaborationData() }, []).
Mount ==
    /\ fetches = 0
    /\ fetches' = fetches + 1
    /\ UNCHANGED <<json, status, data, minEdgeWeight, svg, view, simulations, hoverVars, otherViews>>

LifecycleFetchOk ==
    /\ fetches > 0
    /\ FetchOk
    /\ UNCHANGED <<fetches, hoverVars, otherViews>>
    /\ simulations' = simulations + RenderEffect(WithWeights(json), minEdgeWeight, svg).started

\* Variant: the catch block calls fetchCollaborationData again.
LifecycleFetchFail_Retry ==
    /\ fetches > 0
    /\ status = "pending"
    /\ fetches' = fetches + 1
    /\ UNCHANGED <<json, status, data, minEdgeWeight, svg, view, simulations, hoverVars, otherViews>>

LifecycleFetchFail ==
    fetches > 0 /\ FetchFail /\ UNCHANGED <<simulations, fetches, hoverVars, otherViews>>

LifecycleSetMinEdgeWeight ==
    \E v \in LifecycleSliderInputs :
        /\ fetches > 0
        /\ simulations + RenderEffect(data, v, svg).started <= MaxSimulations
        /\ SetMinEdgeWeightTo(v)
        /\ UNCHANGED <<fetches, hoverVars, otherViews>>
        /\ simulations' = simulations + RenderEffect(data, v, svg).started

\* A simulation's alpha falls below alphaMin and its timer stops.
SimulationEnd ==
    /\ simulations > 0
    /\ simulations' = simulations - 1
    /\ UNCHANGED <<json, status, data, minEdgeWeight, svg, view, fetches, hoverVars, otherViews>>

LifecycleNext ==
    \/ Mount
    \/ LifecycleFetchOk
    \/ LifecycleFetchFail
    \/ LifecycleSetMinEdgeWeight
    \/ SimulationEnd

LifecycleSpec == LifecycleInit /\ [][LifecycleNext]_vars

Next == GraphFetchOk \/ GraphFetchFail \/ GraphSetMinEdgeWeight

Spec == GraphInit /\ [][Next]_vars

\* The load alone: the fetch, the node weights and the first rendering, over
\* every document, the threshold left at its initial value.
LoadNext == GraphFetchOk \/ GraphFetchFail

LoadSpec == GraphInit /\ [][LoadNext]_vars

(***************************************************************************)
(* The same handlers with the pointer.  A run of the render effect that    *)
(* passes line 122 removes the drawn elements, the hovered one among them, *)
(* and draws new ones with the attributes of lines 136-157; the tooltip    *)
(* div lies outside the SVG and stays as it is.  The mousemove handler     *)
(* only moves the tooltip and is left out.                                 *)
(***************************************************************************)
HoverInit == Init /\ json \in ScenarioDocuments /\ fetches = 1 /\ NoPointer /\ OtherViewsIdle

Redraw(r) ==
    IF r.started = 0
    THEN UNCHANGED <<hovered, lastHover, linkAttrs, nodeAttrs, tooltip>>
    ELSE /\ hovered' = Undefined
         /\ lastHover' = "none"
         /\ linkAttrs' = DrawnLinkAttrs(r.svg)
         /\ nodeAttrs' = DrawnNodeAttrs(r.svg)
         /\ UNCHANGED tooltip

HoverFetchOk ==
    /\ FetchOk
    /\ Redraw(RenderEffect(WithWeights(json), minEdgeWeight, svg))
    /\ UNCHANGED <<simulations, fetches, otherViews>>

HoverFetchFail == FetchFail /\ UNCHANGED <<simulations, fetches, hoverVars, otherViews>>

HoverSetMinEdgeWeight ==
    \E v \in LifecycleSliderInputs :
        /\ SetMinEdgeWeightTo(v)
        /\ Redraw(RenderEffect(data, v, svg))
        /\ UNCHANGED <<simulations, fetches, otherViews>>

\* mouseover on the group of a drawn node, lines 170-209.
MouseOver ==
    \E k \in 1..Len(svg.nodes) :
        /\ hovered # Number(svg.nodes[k].id)
        /\ hovered' = Number(svg.nodes[k].id)
        /\ lastHover' = "mouseover"
        /\ linkAttrs' = HoverLinkAttrs(svg, svg.nodes[k].id)
        /\ nodeAttrs' = HoverNodeAttrs(svg, svg.nodes[k].id)
        /\ tooltip' = "visible"
        /\ UNCHANGED <<json, status, data, minEdgeWeight, svg, view, simulations, fetches,
                   otherViews>>

\* Variant: mouseout restores the lines only.
MouseOut_LinksOnly ==
    /\ hovered # Undefined
    /\ hovered' = Undefined
    /\ lastHover' = "mouseout"
    /\ linkAttrs' = [i \in 1..Len(linkAttrs) |-> [stroke |-> "#999", opacity |-> "0.5"]]
    /\ tooltip' = "hidden"
    /\ UNCHANGED <<json, status, data, minEdgeWeight, svg, view, simulations, fetches,
                   nodeAttrs, otherViews>>

\* mouseout of the hovered node's group, lines 228-238.
MouseOut ==
    /\ hovered # Undefined
    /\ hovered' = Undefined
    /\ lastHover' = "mouseout"
    /\ linkAttrs' = [i \in 1..Len(linkAttrs) |-> [stroke |-> "#999", opacity |-> "0.5"]]
    /\ nodeAttrs' = [i \in 1..Len(nodeAttrs) |-> [stroke |-> "#fff", width |-> "2"]]
    /\ tooltip' = "hidden"
    /\ UNCHANGED <<json, status, data, minEdgeWeight, svg, view, simulations, fetches,
                   otherViews>>

HoverNext ==
    HoverFetchOk \/ HoverFetchFail \/ HoverSetMinEdgeWeight \/ MouseOver \/ MouseOut

HoverSpec == HoverInit /\ [][HoverNext]_vars

(***************************************************************************)
(* The same component over documents with more nationalities than the      *)
(* palette has colours: one artist per nationality, listed in descending   *)
(* order, the first nationality twice, linked in a chain.                  *)
(***************************************************************************)
Reverse(list) == [i \in 1..Len(list) |-> list[Len(list) + 1 - i]]

ColourDocument(present) ==
    LET codes == SelectSeq(Reverse(CodeUnitOrder), LAMBDA c : c \in present)
        listed == Append(codes, codes[1])
    IN  GraphData(
            [i \in 1..Len(listed) |->
                IF listed[i] = "Unknown" THEN NodeDatum(i) ELSE Artist(i, listed[i])],
            [i \in 1..(Len(listed) - 1) |->
                LinkDatum(BareId(i), BareId(i + 1), Number(1))])

ColourDocuments ==
    {ColourDocument(Range(CodeUnitOrder) \ missing) :
        missing \in {m \in SUBSET Range(CodeUnitOrder) : Cardinality(m) <= MaxMissing}}

ColourInit ==
    /\ json \in ColourDocuments
    /\ status = "pending"
    /\ data = NoData
    /\ minEdgeWeight = InitialMinEdgeWeight
    /\ svg = EmptySvg
    /\ view = EmptySvg
    /\ simulations = 0
    /\ fetches = 1
    /\ NoPointer /\ OtherViewsIdle

ColourSpec == ColourInit /\ [][Next]_vars

(***************************************************************************)
(* The exhibition heatmap, GeoView1.tsx.                                   *)
(***************************************************************************)
\* The collaboration view is not mounted.
ArtVisIdle ==
    /\ json = NoData
    /\ status = "unmounted"
    /\ data = NoData
    /\ minEdgeWeight = 0
    /\ svg = EmptySvg
    /\ view = EmptySvg
    /\ simulations = 0
    /\ fetches = 0
    /\ NoPointer

\* Lines 6-26.
nameToIsoA3Map ==
    ("Germany" :> "DEU") @@ ("Austria" :> "AUT") @@ ("Belgium" :> "BEL") @@
    ("Czechia" :> "CZE") @@ ("Switzerland" :> "CHE") @@
    ("United States of America" :> "USA") @@ ("Ukraine" :> "UKR") @@
    ("Australia" :> "AUS") @@ ("Spain" :> "ESP") @@ ("France" :> "FRA") @@
    ("Hungary" :> "HUN") @@ ("Italy" :> "ITA") @@ ("Japan" :> "JPN") @@
    ("Lithuania" :> "LTU") @@ ("Netherlands" :> "NLD") @@ ("Poland" :> "POL") @@
    ("Russia" :> "RUS") @@ ("Sweden" :> "SWE") @@ ("Unknown" :> "Unknown")

\* The features of the world map: properties.name and properties.iso_a3, one
\* shape named in nameToIsoA3Map, one carrying iso_a3, one with a name the table
\* lacks and one whose country is not in the data.
Feature(name, iso) == [name |-> name, iso_a3 |-> iso]
Features ==
    <<Feature(String("Germany"), Undefined),
      Feature(Undefined, String("FRA")),
      Feature(String("United Kingdom"), Undefined),
      Feature(String("Austria"), Undefined)>>

\* The documents behind /data/1_geographic_timeline.json: per country code the
\* country_name and the list of {e_startdate, num_exhibitions}, in the order of
\* Object.entries.  Germany's records vary, year by year absent or a count.
ModelYears == InitialYear..(InitialYear + MaxYearSpan)
YearEntry(y, n) == [e_startdate |-> y, num_exhibitions |-> n]
Country(key, name, entries) == [key |-> key, country_name |-> name, data |-> entries]

YearEntries(f) ==
    LET all == [i \in 1..(MaxYearSpan + 1) |-> InitialYear + i - 1]
        ys == SelectSeq(all, LAMBDA y : f[y] # Undefined)
    IN  [i \in 1..Len(ys) |-> YearEntry(ys[i], f[ys[i]][1])]

GeoDocument(f) ==
    <<Country("GBR", "United Kingdom", <<YearEntry(InitialYear, MaxCount)>>),
      Country("DEU", "Germany", YearEntries(f)),
      Country("FRA", "France", <<YearEntry(InitialYear, MaxCount)>>),
      Country("Unknown", "Unknown", << >>)>>

GeoDocuments ==
    {GeoDocument(f) :
        f \in [ModelYears -> {Undefined} \cup {Number(n) : n \in 0..MaxCount}]}

\* Lines 63-67: Math.max over every num_exhibitions of the document.
MaxOf(S) == CHOOSE m \in S : \A x \in S : x <= m
MaxNumExhibitions(doc) ==
    MaxOf(UNION {{doc[i].data[j].num_exhibitions : j \in 1..Len(doc[i].data)} :
                    i \in 1..Len(doc)})

\* value.data.find((entry) => entry.e_startdate === year)?.num_exhibitions || 0
NumExhibitions(value, y) ==
    LET found == SelectSeq(value.data, LAMBDA entry : entry.e_startdate = y)
    IN  IF Len(found) = 0 THEN 0 ELSE found[1].num_exhibitions

\* The comparator of lines 101-104 on two rows.
CountryOrder == <<"France", "Germany", "United Kingdom", "Unknown">>
RowLess(a, b, key) ==
    IF key = "country"
    THEN (CHOOSE i \in 1..Len(CountryOrder) : CountryOrder[i] = a.country)
            < (CHOOSE i \in 1..Len(CountryOrder) : CountryOrder[i] = b.country)
    ELSE a.numExhibitions < b.numExhibitions
Compare(a, b, config) ==
    IF RowLess(a, b, config.key) THEN (IF config.direction = "asc" THEN -1 ELSE 1)
    ELSE IF RowLess(b, a, config.key) THEN (IF config.direction = "asc" THEN 1 ELSE -1)
    ELSE 0

\* Array.prototype.sort with that comparator: a stable sort.
RECURSIVE SortRows(_, _, _, _)
SortRows(rows, i, sorted, config) ==
    IF i > Len(rows) THEN sorted
    ELSE LET x == rows[i]
             before == SelectSeq(sorted, LAMBDA e : Compare(e, x, config) <= 0)
             after == SelectSeq(sorted, LAMBDA e : Compare(e, x, config) > 0)
         IN  SortRows(rows, i + 1, before \o <<x>> \o after, config)

\* Variant: the filter keeps the rows strictly above minExhibitions.
summaryData_Strict(d, y, min, config) ==
    IF d = << >> THEN << >>
    ELSE LET doc == d[1]
             rows == [i \in 1..Len(doc) |->
                        [country |-> doc[i].country_name,
                         numExhibitions |-> NumExhibitions(doc[i], y)]]
             result == SelectSeq(rows, LAMBDA entry : entry.numExhibitions > min)
         IN  IF config # << >> THEN SortRows(result, 1, << >>, config[1]) ELSE result

\* summaryData, lines 87-109, with the closure's data, year, minExhibitions
\* and sortConfig as parameters.
summaryData(d, y, min, config) ==
    IF d = << >> THEN << >>
    ELSE LET doc == d[1]
             rows == [i \in 1..Len(doc) |->
                        [country |-> doc[i].country_name,
                         numExhibitions |-> NumExhibitions(doc[i], y)]]
             result == SelectSeq(rows, LAMBDA entry : entry.numExhibitions >= min)
         IN  IF config # << >> THEN SortRows(result, 1, << >>, config[1]) ELSE result

\* Variant: the key of the previous configuration is not compared.
handleSort_KeyIgnored(config, key) ==
    [key |-> key,
     direction |-> IF config # << >> /\ config[1].direction = "asc"
                   THEN "desc" ELSE "asc"]

\* handleSort, lines 111-117: the new sortConfig.
handleSort(config, key) ==
    [key |-> key,
     direction |-> IF config # << >> /\ config[1].key = key /\ config[1].direction = "asc"
                   THEN "desc" ELSE "asc"]

\* d.properties?.iso_a3 || nameToIsoA3Map[d.properties?.name]
CountryCode(feature) ==
    IF feature.iso_a3 # Undefined /\ feature.iso_a3 # String("") THEN feature.iso_a3
    ELSE IF feature.name # Undefined /\ feature.name[1] \in DOMAIN nameToIsoA3Map
         THEN String(nameToIsoA3Map[feature.name[1]])
         ELSE Undefined

\* A fill: '#ccc' or the colour colorScale(n) of the sequential scale.
Grey == [scale |-> FALSE, n |-> 0]
Scaled(n) == [scale |-> TRUE, n |-> n]

\* data[countryCode]
CountryData(doc, code) == SelectSeq(doc, LAMBDA c : c.key = code)

\* The fill callback, lines 168-178.
PathFill(feature, doc, y, min) ==
    LET countryCode == CountryCode(feature)
    IN  IF countryCode = Undefined THEN Grey
        ELSE LET countryData == CountryData(doc, countryCode[1])
             IN  IF Len(countryData) = 0 THEN Grey
                 ELSE LET numExhibitions == NumExhibitions(countryData[1], y)
                      IN  IF numExhibitions >= min THEN Scaled(numExhibitions) ELSE Grey

\* Variant: the guard tests the data alone.
RenderMap_DataOnly(wm, d, y, min, drawn) ==
    IF d = << >>
    THEN drawn
    ELSE [i \in 1..Len(Features) |-> PathFill(Features[i], d[1], y, min)]

\* The render effect, lines 129-262: the fills of the paths afterwards.
RenderMap(wm, d, y, min, drawn) ==
    IF wm = "null" \/ d = << >>
    THEN drawn
    ELSE [i \in 1..Len(Features) |-> PathFill(Features[i], d[1], y, min)]

\* The state after the first commit: the mount effect has called loadData,
\* which waits for fetchWorldMap.
GeoView1Init ==
    /\ ArtVisIdle
    /\ GeoView3Idle
    /\ geoJson \in GeoDocuments
    /\ loadData = "fetchWorldMap"
    /\ mapData = "null"
    /\ exhibitionData = << >>
    /\ worldMap = "null"
    /\ geoData = << >>
    /\ year = InitialYear
    /\ minExhibitions = InitialMinExhibitions
    /\ maxExhibitions = InitialMaxExhibitions
    /\ sortConfig = << >>
    /\ paths = << >>

\* fetchWorldMap settles, lines 44-56: the topology or, caught, null.
FetchWorldMapSettles ==
    /\ loadData = "fetchWorldMap"
    /\ \E ok \in BOOLEAN : mapData' = IF ok THEN "topology" ELSE "null"
    /\ loadData' = "fetchData"
    /\ UNCHANGED <<geoJson, exhibitionData, worldMap, geoData, year, minExhibitions,
                   maxExhibitions, sortConfig, paths, artVisVars, geoView3Vars>>

\* fetchData settles, lines 58-76: on success setMaxExhibitions and the
\* document, on failure, caught, null.
FetchDataSettles ==
    /\ loadData = "fetchData"
    /\ \E ok \in BOOLEAN :
        IF ok
        THEN /\ exhibitionData' = <<geoJson>>
             /\ maxExhibitions' = MaxNumExhibitions(geoJson)
        ELSE /\ exhibitionData' = << >>
             /\ UNCHANGED maxExhibitions
    /\ loadData' = "setWorldMap"
    /\ UNCHANGED <<geoJson, mapData, worldMap, geoData, year, minExhibitions,
                   sortConfig, paths, artVisVars, geoView3Vars>>

\* Line 82, setWorldMap(mapData), and the effect of the commit.
SetWorldMap ==
    /\ loadData = "setWorldMap"
    /\ worldMap' = mapData
    /\ loadData' = "setData"
    /\ paths' = RenderMap(mapData, geoData, year, minExhibitions, paths)
    /\ UNCHANGED <<geoJson, mapData, exhibitionData, geoData, year, minExhibitions,
                   maxExhibitions, sortConfig, artVisVars, geoView3Vars>>

\* Line 83, setData(exhibitionData), and the effect of the commit.
SetData ==
    /\ loadData = "setData"
    /\ geoData' = exhibitionData
    /\ loadData' = "done"
    /\ paths' = RenderMap(worldMap, exhibitionData, year, minExhibitions, paths)
    /\ UNCHANGED <<geoJson, mapData, exhibitionData, worldMap, year, minExhibitions,
                   maxExhibitions, sortConfig, artVisVars, geoView3Vars>>

\* The year range input, lines 309-316.
SetYear ==
    \E v \in {y \in YearMin..YearMax : y \in ModelYears} :
        /\ v # year
        /\ year' = v
        /\ paths' = RenderMap(worldMap, geoData, v, minExhibitions, paths)
        /\ UNCHANGED <<geoJson, loadData, mapData, exhibitionData, worldMap, geoData,
                       minExhibitions, maxExhibitions, sortConfig, artVisVars, geoView3Vars>>

\* The minimum-exhibitions range input, lines 320-327.
SetMinExhibitions ==
    \E v \in {m \in 1..(MaxCount + 1) : m <= maxExhibitions} :
        /\ v # minExhibitions
        /\ minExhibitions' = v
        /\ paths' = RenderMap(worldMap, geoData, year, v, paths)
        /\ UNCHANGED <<geoJson, loadData, mapData, exhibitionData, worldMap, geoData,
                       year, maxExhibitions, sortConfig, artVisVars, geoView3Vars>>

\* A click on one of the two Sort buttons, lines 337 and 352.
HandleSort ==
    \E key \in {"country", "numExhibitions"} :
        /\ sortConfig' = <<handleSort(sortConfig, key)>>
        /\ UNCHANGED <<geoJson, loadData, mapData, exhibitionData, worldMap, geoData,
                       year, minExhibitions, maxExhibitions, paths, artVisVars, geoView3Vars>>

GeoView1Next ==
    \/ FetchWorldMapSettles
    \/ FetchDataSettles
    \/ SetWorldMap
    \/ SetData
    \/ SetYear
    \/ SetMinExhibitions
    \/ HandleSort

GeoView1Spec == GeoView1Init /\ [][GeoView1Next]_vars

(***************************************************************************)
(* GeoView3, the artist timeline                                           *)
(* (src/UE/Assignment_2/src/components/GeoView3.tsx).                      *)
(***************************************************************************)

\* Lines 21-42: the table of GeoView1 and Latvia.
nameToIsoA3Map3 == nameToIsoA3Map @@ ("Latvia" :> "LVA")

\* CountryData, lines 6-11; year is absent in the document.
CountryEntry(name, code, n) ==
    [country |-> name, country_3 |-> code, num_exhibitions |-> n, year |-> Undefined]

\* The years the documents speak of.  A year key is a decimal string and is
\* modelled by the number parseInt reads from it.
TimelineYears == YearMin..(YearMin + MaxYearSpan + 1)

\* What an artist's record may hold for one year: no key, one entry of Germany
\* with any count, or an entry without a country code before one of France.
YearLists ==
    {Undefined}
    \cup {<< <<CountryEntry("Germany", "DEU", n)>> >> : n \in 0..MaxCount}
    \cup {<< <<CountryEntry("Nowhere", "", MaxCount),
               CountryEntry("France", "FRA", MaxCount)>> >>}

\* ArtistYearData, lines 13-15: the years that have a key, each with its list.
ArtistYearData(f) ==
    [y \in {x \in TimelineYears : f[x] # Undefined} |-> f[y][1]]

\* The documents behind /data/year_artist_data.json, lines 17-19, in the order
\* of Object.keys: one artist whose years vary and one with a single year.
ArtistDocument(f) ==
    <<[key |-> "Amiet", value |-> ArtistYearData(f)],
      [key |-> "Barlach",
       value |-> (YearMin :> <<CountryEntry("France", "FRA", MaxCount)>>)]>>
ArtistDocuments == {ArtistDocument(f) : f \in [TimelineYears -> YearLists]}

\* Object.keys of a record whose keys are integers: ascending.
RECURSIVE YearKeys(_)
YearKeys(S) ==
    IF S = {} THEN << >>
    ELSE LET m == CHOOSE x \in S : \A y \in S : x <= y
         IN  <<m>> \o YearKeys(S \ {m})

\* Array.prototype.sort with (a, b) => parseInt(a) - parseInt(b), line 103.
RECURSIVE SortYears(_)
InsertYear(y, sorted) ==
    LET before == SelectSeq(sorted, LAMBDA x : x <= y)
        after == SelectSeq(sorted, LAMBDA x : x > y)
    IN  before \o <<y>> \o after
SortYears(seq) ==
    IF seq = << >> THEN << >>
    ELSE InsertYear(seq[Len(seq)], SortYears(SubSeq(seq, 1, Len(seq) - 1)))

\* data[artist]
ArtistRecord(doc, artist) == SelectSeq(doc, LAMBDA r : r.key = artist)

\* Variant: the filter keeps the entries without exhibitions.
filterByArtist_KeepsZero(d, artist) ==
    IF artist = << >> \/ d = << >> \/ Len(ArtistRecord(d[1], artist[1])) = 0
    THEN [filteredData |-> << >>, years |-> << >>, reset |-> FALSE]
    ELSE LET artistData == ArtistRecord(d[1], artist[1])[1].value
             yearData(y) ==
                 SelectSeq([i \in 1..Len(artistData[y]) |->
                                [artistData[y][i] EXCEPT !.year = <<y>>]],
                           LAMBDA entry : entry.country_3 # "")
             kept == {y \in DOMAIN artistData : Len(yearData(y)) > 0}
             filtered == [y \in kept |-> yearData(y)]
         IN  [filteredData |-> <<filtered>>,
              years |-> SortYears(YearKeys(DOMAIN filtered)),
              reset |-> TRUE]

\* filterByArtist, lines 79-105: what it hands to setFilteredData and setYears
\* and whether it calls setSelectedYear(null).
filterByArtist(d, artist) ==
    IF artist = << >> \/ d = << >> \/ Len(ArtistRecord(d[1], artist[1])) = 0
    THEN [filteredData |-> << >>, years |-> << >>, reset |-> FALSE]
    ELSE LET artistData == ArtistRecord(d[1], artist[1])[1].value
             yearData(y) ==
                 SelectSeq([i \in 1..Len(artistData[y]) |->
                                [artistData[y][i] EXCEPT !.year = <<y>>]],
                           LAMBDA entry : entry.country_3 # "" /\ entry.num_exhibitions > 0)
             kept == {y \in DOMAIN artistData : Len(yearData(y)) > 0}
             filtered == [y \in kept |-> yearData(y)]
         IN  [filteredData |-> <<filtered>>,
              years |-> SortYears(YearKeys(DOMAIN filtered)),
              reset |-> TRUE]

\* Object.values(filteredData).flat(), line 168.
RECURSIVE Flat(_, _)
Flat(filtered, keys) ==
    IF keys = << >> THEN << >>
    ELSE filtered[keys[1]] \o Flat(filtered, SubSeq(keys, 2, Len(keys)))

\* Lines 166-168.
filteredYearData(fd, sy) ==
    IF sy # << >> THEN fd[sy[1]] ELSE Flat(fd, YearKeys(DOMAIN fd))

\* d.properties?.iso_a3 || nameToIsoA3Map[d.properties?.name], lines 188-189.
CountryCode3(feature) ==
    IF feature.iso_a3 # Undefined /\ feature.iso_a3 # String("") THEN feature.iso_a3
    ELSE IF feature.name # Undefined /\ feature.name[1] \in DOMAIN nameToIsoA3Map3
         THEN String(nameToIsoA3Map3[feature.name[1]])
         ELSE Undefined

\* The fill callback, lines 187-196.
PathFill3(feature, entries) ==
    LET countryCode == CountryCode3(feature)
    IN  IF countryCode = Undefined THEN Grey
        ELSE LET countryData == SelectSeq(entries,
                                   LAMBDA entry : entry.country_3 = countryCode[1])
                 numExhibitions == IF Len(countryData) = 0 THEN 0
                                   ELSE countryData[1].num_exhibitions
             IN  IF numExhibitions > 0 THEN Scaled(numExhibitions) ELSE Grey

\* What a run of the render effect past its guard leaves in the svg: the
\* entries the shapes are bound to and the fill of each shape.
MapOf(entries) ==
    [filteredYearData |-> entries,
     fill |-> [i \in 1..Len(Features) |-> PathFill3(Features[i], entries)]]

\* The render effect, lines 150-273: the guard of line 151 returns before
\* the svg is cleared at line 154.
RenderTimeline(wm, fd, sy, drawn) ==
    IF wm = "null" \/ fd = << >> \/ (sy # << >> /\ sy[1] \notin DOMAIN fd[1])
    THEN drawn
    ELSE <<MapOf(filteredYearData(fd[1], sy))>>

\* Math.min and Math.max of the years, lines 378-379.
MinYear(ys) == CHOOSE m \in {ys[i] : i \in 1..Len(ys)} : \A i \in 1..Len(ys) : m <= ys[i]
MaxYear(ys) == CHOOSE m \in {ys[i] : i \in 1..Len(ys)} : \A i \in 1..Len(ys) : m >= ys[i]

\* Line 380: the value the year range input shows.
SliderValue(ys, sy) == IF sy # << >> THEN sy[1] ELSE MinYear(ys)

\* The state after the first render, lines 48-54, the mount effect started.
GeoView3Init ==
    /\ ArtVisIdle
    /\ GeoView1Idle
    /\ artistJson \in {<<doc>> : doc \in ArtistDocuments}
    /\ loadData3 = "fetchWorldMap"
    /\ mapData3 = "null"
    /\ worldMap3 = "null"
    /\ data3 = << >>
    /\ filteredData3 = << >>
    /\ artists = << >>
    /\ years = << >>
    /\ selectedArtist = << >>
    /\ selectedYear = << >>
    /\ drawn3 = << >>

\* fetchWorldMap settles, lines 56-65 and 134: the topology or, caught, null.
FetchWorldMap3Settles ==
    /\ loadData3 = "fetchWorldMap"
    /\ \E ok \in BOOLEAN : mapData3' = IF ok THEN "topology" ELSE "null"
    /\ loadData3' = "fetchData"
    /\ UNCHANGED <<artistJson, worldMap3, data3, filteredData3, artists, years,
                   selectedArtist, selectedYear, drawn3, artVisVars, geoView1Vars>>

\* fetchData settles, lines 67-77, and loadData goes on to setWorldMap, line
\* 136, in the same turn of the event loop; then the render effect.
FetchData3Settles ==
    /\ loadData3 = "fetchData"
    /\ \E ok \in BOOLEAN :
        IF ok
        THEN /\ artists' = [i \in 1..Len(artistJson[1]) |-> artistJson[1][i].key]
             /\ data3' = artistJson
        ELSE UNCHANGED <<artists, data3>>
    /\ worldMap3' = mapData3
    /\ loadData3' = "done"
    /\ drawn3' = RenderTimeline(mapData3, filteredData3, selectedYear, drawn3)
    /\ UNCHANGED <<artistJson, mapData3, filteredData3, years, selectedArtist,
                   selectedYear, artVisVars, geoView1Vars>>

\* The artist select, lines 320-322, offering the names of artists; then the
\* effect of lines 141-148 and, after its commit, the render effect.
SelectArtist ==
    \E i \in 1..Len(artists) :
        LET artist == <<artists[i]>>
            r == filterByArtist(data3, artist)
            sy == IF r.reset THEN << >> ELSE selectedYear
        IN  /\ artist # selectedArtist
            /\ selectedArtist' = artist
            /\ filteredData3' = r.filteredData
            /\ years' = r.years
            /\ selectedYear' = sy
            /\ drawn3' = RenderTimeline(worldMap3, r.filteredData, sy, drawn3)
            /\ UNCHANGED <<artistJson, loadData3, mapData3, worldMap3, data3, artists,
                           artVisVars, geoView1Vars>>

\* The year range input, lines 376-388, between the least and the greatest of
\* years; then the render effect.
SetSelectedYear ==
    /\ years # << >>
    /\ \E v \in MinYear(years)..MaxYear(years) :
        /\ v # SliderValue(years, selectedYear)
        /\ selectedYear' = <<v>>
        /\ drawn3' = RenderTimeline(worldMap3, filteredData3, <<v>>, drawn3)
    /\ UNCHANGED <<artistJson, loadData3, mapData3, worldMap3, data3, filteredData3,
                   artists, years, selectedArtist, artVisVars, geoView1Vars>>

GeoView3Next ==
    \/ FetchWorldMap3Settles
    \/ FetchData3Settles
    \/ SelectArtist
    \/ SetSelectedYear

GeoView3Spec == GeoView3Init /\ [][GeoView3Next]_vars

(***************************************************************************)
(* Vocabulary of the properties.                                           *)
(***************************************************************************)
Loaded == ~data.null

\* The node identifier an endpoint denotes, whichever form it has.
EndId(e) == IF e.type = "number" THEN e.num[1] ELSE e.id[1]
\* The weight of a link, a missing weight counting as 0.
WeightOf(l) == IF l.weight = Undefined THEN 0 ELSE l.weight[1]
IsSelfLoop(l) == EndId(l.source) = EndId(l.target)
Ids(nodes) == {nodes[i].id : i \in 1..Len(nodes)}

RECURSIVE SumWeights(_, _)
SumWeights(links, I) ==
    IF I = {} THEN 0
    ELSE LET i == CHOOSE x \in I : TRUE
         IN  WeightOf(links[i]) + SumWeights(links, I \ {i})

RECURSIVE IsSubSeqFrom(_, _, _, _)
IsSubSeqFrom(a, i, b, j) ==
    IF i > Len(a) THEN TRUE
    ELSE IF j > Len(b) THEN FALSE
    ELSE IF a[i] = b[j] THEN IsSubSeqFrom(a, i + 1, b, j + 1)
    ELSE IsSubSeqFrom(a, i, b, j + 1)
\* a is b with some elements left out, the order kept.
IsSubSeq(a, b) == IsSubSeqFrom(a, 1, b, 1)

Permute(s, p) == [i \in 1..Len(s) |-> s[p[i]]]

\* C1: for every threshold w, every link returned by filteredData has weight
\* (missing = 0) >= w and a source id different from its target id, for bare
\* and for embedded endpoints alike.
C1_RetainedLinksMeetThreshold ==
    \A w \in Thresholds :
        \A l \in Range(filteredData(data, w).links) :
            WeightOf(l) >= w /\ EndId(l.source) # EndId(l.target)

\* A loaded graph and a threshold at which an embedded-form link is retained,
\* a heavy enough self-loop is dropped and a link is dropped for its weight.
C1_Witness ==
    /\ Loaded
    /\ \E w \in Thresholds :
        /\ \E l \in Range(filteredData(data, w).links) : l.source.type = "object"
        /\ \E l \in Range(data.links) : IsSelfLoop(l) /\ WeightOf(l) >= w
        /\ \E l \in Range(data.links) : ~IsSelfLoop(l) /\ WeightOf(l) < w

\* C2: for every threshold w, a node of the graph is in the filter's node
\* output exactly when its id is the source or the target of a retained link.
C2_NodeRetainedIffConnected ==
    \A w \in Thresholds :
        LET f == filteredData(data, w)
        IN  \A k \in 1..Len(data.nodes) :
                (data.nodes[k] \in Range(f.nodes))
                <=> (\E l \in Range(f.links) :
                        \/ EndId(l.source) = data.nodes[k].id
                        \/ EndId(l.target) = data.nodes[k].id)

\* A threshold at which one node is kept because it is the target (and not the
\* source) of a retained link while another node is dropped.
C2_Witness ==
    /\ Loaded
    /\ \E w \in Thresholds :
        LET f == filteredData(data, w)
        IN  /\ Len(f.nodes) < Len(data.nodes)
            /\ \E n \in Range(f.nodes) :
                /\ \E l \in Range(f.links) : EndId(l.target) = n.id
                /\ \A l \in Range(f.links) : EndId(l.source) # n.id

\* C3: referential integrity of the filter output: for every threshold, both
\* endpoints of every retained link are ids of retained nodes (so a link to an
\* id that is no node is dropped).
C3_ReferentialIntegrity ==
    \A w \in Thresholds :
        LET f == filteredData(data, w)
        IN  \A l \in Range(f.links) :
                EndId(l.source) \in Ids(f.nodes) /\ EndId(l.target) \in Ids(f.nodes)

\* C4: after load, the weight of node n is the sum of the weights of the links
\* whose source is n plus the sum of the weights of the links whose target is
\* n and whose source is not n (a self-loop counts once).
C4_NodeWeightIsSourceSumPlusTargetSum ==
    Loaded =>
        \A k \in 1..Len(data.nodes) :
            LET n == data.nodes[k].id
                asSource == {i \in 1..Len(json.links) : EndId(json.links[i].source) = n}
                asTarget == {i \in 1..Len(json.links) :
                                /\ EndId(json.links[i].target) = n
                                /\ EndId(json.links[i].source) # n}
            IN  data.nodes[k].weight
                    = Number(SumWeights(json.links, asSource) + SumWeights(json.links, asTarget))

\* A loaded graph in which some node has a weighted self-loop and is also the
\* target of a weighted link from another node.
C4_Witness ==
    /\ Loaded
    /\ \E i, j \in 1..Len(json.links) :
        /\ IsSelfLoop(json.links[i]) /\ WeightOf(json.links[i]) > 0
        /\ ~IsSelfLoop(json.links[j]) /\ WeightOf(json.links[j]) > 0
        /\ EndId(json.links[j].target) = EndId(json.links[i].source)

ScenarioALoaded == json \in {ScenarioA, ScenarioAEmbedded} /\ Loaded
NodeWeightList == [k \in 1..Len(data.nodes) |-> data.nodes[k].weight]

\* C5 as stated: on Scenario A the node weights are 1 -> 5, 2 -> 7, 3 -> 2.
C5_ScenarioA_AsStated ==
    ScenarioALoaded => NodeWeightList = <<Number(5), Number(7), Number(2)>>

\* C5 as amended: on Scenario A the node weights are 1 -> 14, 2 -> 7, 3 -> 2
\* (node 1 gets 5 as the source of (1,2) and 9 as the source of its self-loop).
C5_ScenarioA_Amended ==
    ScenarioALoaded => NodeWeightList = <<Number(14), Number(7), Number(2)>>

\* Scenario A's document has been loaded and node 1, which has the self-loop,
\* carries its weight.
C5_Witness == json = ScenarioA /\ Loaded /\ IsNumber(data.nodes[1].weight)

\* C6: after load every node of the input carries a weight, a node that is the
\* endpoint of no link carries 0, and the node list has the input's ids in the
\* input's order.
C6_EveryNodeCarriesWeight ==
    Loaded =>
        /\ Len(data.nodes) = Len(json.nodes)
        /\ \A k \in 1..Len(data.nodes) :
            /\ data.nodes[k].id = json.nodes[k].id
            /\ IsNumber(data.nodes[k].weight)
            /\ (\A l \in Range(json.links) :
                    EndId(l.source) # data.nodes[k].id /\ EndId(l.target) # data.nodes[k].id)
                => data.nodes[k].weight = Number(0)

\* A loaded graph with a node on no link and a node of positive weight.
C6_Witness ==
    /\ Loaded
    /\ \E k \in 1..Len(data.nodes) :
        \A l \in Range(json.links) :
            EndId(l.source) # data.nodes[k].id /\ EndId(l.target) # data.nodes[k].id
    /\ \E k \in 1..Len(data.nodes) : OrZero(data.nodes[k].weight) > 0

\* C7: the node weights do not depend on the order of the link list: loading
\* any permutation of the document's links gives every node the weight it has.
C7_WeightsPermutationInvariant ==
    Loaded =>
        \A p \in Permutations(1..Len(json.links)) :
            WithWeights([json EXCEPT !.links = Permute(json.links, p)]).nodes = data.nodes

\* A loaded graph whose first two links share an endpoint, differ in weight
\* and can be swapped.
C7_Witness ==
    /\ Loaded
    /\ Len(json.links) >= 2
    /\ WeightOf(json.links[1]) # WeightOf(json.links[2])
    /\ {EndId(json.links[1].source), EndId(json.links[1].target)}
         \cap {EndId(json.links[2].source), EndId(json.links[2].target)} # {}

\* C8: filtering is idempotent: for every threshold w, the filter at w applied
\* to the output of the filter at w returns the same node list and link list.
C8_FilterIdempotent ==
    \A w \in Thresholds :
        LET f == filteredData(data, w)
        IN  filteredData(GraphData(f.nodes, f.links), w) = f

\* A threshold at which the first pass drops a link and a node and keeps some.
C8_Witness ==
    /\ Loaded
    /\ \E w \in Thresholds :
        LET f == filteredData(data, w)
        IN  /\ Len(f.links) > 0
            /\ Len(f.links) < Len(data.links)
            /\ Len(f.nodes) < Len(data.nodes)

\* C9: filtering is monotone: for thresholds w1 <= w2 the links retained at w2
\* are among the links retained at w1, and likewise the nodes.
C9_FilterMonotone ==
    \A w1 \in Thresholds :
        LET f1 == filteredData(data, w1)
        IN  \A w2 \in Thresholds :
                w1 <= w2 =>
                    LET f2 == filteredData(data, w2)
                    IN  IsSubSeq(f2.links, f1.links) /\ IsSubSeq(f2.nodes, f1.nodes)

\* Two thresholds of which the higher keeps some links and nodes, and fewer of
\* each than the lower.
C9_Witness ==
    /\ Loaded
    /\ \E w1 \in Thresholds : \E w2 \in Thresholds :
        /\ w1 < w2
        /\ Len(filteredData(data, w2).links) > 0
        /\ Len(filteredData(data, w2).links) < Len(filteredData(data, w1).links)
        /\ Len(filteredData(data, w2).nodes) < Len(filteredData(data, w1).nodes)

\* C10 as stated: for every threshold the link list returned is a strict subset
\* of the graph's link list and the node list a strict subset of its node list.
C10_StrictSubset_AsStated ==
    Loaded =>
        \A w \in Thresholds :
            LET f == filteredData(data, w)
            IN  /\ IsSubSeq(f.links, data.links) /\ Len(f.links) < Len(data.links)
                /\ IsSubSeq(f.nodes, data.nodes) /\ Len(f.nodes) < Len(data.nodes)

\* C10 as amended: for every threshold the link list returned is a sub-list of
\* the graph's link list and the node list a sub-list of its node list; either
\* may be the whole list.
C10_SubList_Amended ==
    \A w \in Thresholds :
        LET f == filteredData(data, w)
        IN  IsSubSeq(f.links, data.links) /\ IsSubSeq(f.nodes, data.nodes)

\* A loaded, rendered graph with links that the filter returns whole.
C10_Witness ==
    /\ Loaded
    /\ Len(data.links) > 0
    /\ \E l \in Range(data.links) : l.source.type = "object"
    /\ \E w \in Thresholds :
        filteredData(data, w) = [nodes |-> data.nodes, links |-> data.links]

\* C11: at threshold 0 the filter returns exactly the links that are not
\* self-loops, whatever their weight (0 and missing included), in their order.
C11_ThresholdZeroKeepsAllButSelfLoops ==
    filteredData(data, 0).links = SelectSeq(data.links, LAMBDA l : ~IsSelfLoop(l))

\* A loaded graph with a weighted self-loop and a link without weight that is
\* no self-loop, which threshold 0 retains.
C11_Witness ==
    /\ Loaded
    /\ \E l \in Range(data.links) : IsSelfLoop(l) /\ WeightOf(l) > 0
    /\ \E l \in Range(filteredData(data, 0).links) : l.weight = Undefined

\* A link with each endpoint reduced to the node id it denotes.
Denoted(l) == [source |-> EndId(l.source), target |-> EndId(l.target), weight |-> l.weight]
DenotedLinks(links) == [i \in 1..Len(links) |-> Denoted(links[i])]

AllBare(links) ==
    [i \in 1..Len(links) |->
        [links[i] EXCEPT !.source = BareId(EndId(links[i].source)),
                         !.target = BareId(EndId(links[i].target))]]
AllEmbedded(links) ==
    [i \in 1..Len(links) |->
        [links[i] EXCEPT !.source = NodeObject(EndId(links[i].source)),
                         !.target = NodeObject(EndId(links[i].target))]]

\* C13: the form of the endpoints does not affect the results: with every
\* endpoint of the graph rewritten as a bare id, or as an embedded object, the
\* node weights are the ones the nodes carry and, for every threshold, the
\* filter returns the same nodes and links denoting the same ids.
C13_EndpointFormIrrelevant ==
    Loaded =>
        \A links \in {AllBare(data.links), AllEmbedded(data.links)} :
            /\ WithWeights(GraphData(json.nodes, links)).nodes = data.nodes
            /\ \A w \in Thresholds :
                LET f == filteredData(data, w)
                    g == filteredData([data EXCEPT !.links = links], w)
                IN  f.nodes = g.nodes /\ DenotedLinks(f.links) = DenotedLinks(g.links)

\* A graph in which a render has left one link with node objects and another
\* with bare ids, both retained at some threshold.
C13_Witness ==
    /\ Loaded
    /\ \E w \in Thresholds :
        LET f == filteredData(data, w)
        IN  /\ \E l \in Range(f.links) : l.source.type = "object" /\ l.target.type = "object"
            /\ \E l \in Range(f.links) : l.source.type = "number" /\ l.target.type = "number"

\* C14: the view is history-independent: once the graph has loaded, the
\* {nodes, links} the render effect computed last is the filter of the graph
\* at the current threshold, and it has the nodes, and links denoting the ids
\* and carrying the weights, of the filter of the graph as loaded at that
\* threshold, whatever thresholds were visited before.
C14_ViewIsFilterOfLoadedGraph ==
    Loaded =>
        LET base == filteredData(WithWeights(json), minEdgeWeight)
        IN  /\ view = filteredData(data, minEdgeWeight)
            /\ view.nodes = base.nodes
            /\ DenotedLinks(view.links) = DenotedLinks(base.links)

\* The current view is not empty, and a link outside it was drawn at an
\* earlier, lower threshold (forceLink has rewritten its bare source).
C14_Witness ==
    /\ Loaded
    /\ Len(view.links) > 0
    /\ \E i \in 1..Len(data.links) :
        /\ json.links[i].source.type = "number"
        /\ data.links[i].source.type = "object"
        /\ data.links[i] \notin Range(view.links)

\* C15: after a failed fetch the data state is null, the filter returns no
\* nodes and no links for every threshold, and nothing is drawn; the view has
\* not crashed.
C15_FetchFailureGivesEmptyState ==
    status = "failed" =>
        /\ data.null
        /\ data = NoData
        /\ \A w \in Thresholds : filteredData(data, w) = [nodes |-> << >>, links |-> << >>]
        /\ svg = EmptySvg

\* The fetch has failed and the threshold has been moved since.
C15_Witness == status = "failed" /\ minEdgeWeight # InitialMinEdgeWeight

\* The indexes of the links of a list that touch node n.
IncidentTo(links, n) ==
    {i \in 1..Len(links) : EndId(links[i].source) = n \/ EndId(links[i].target) = n}

\* C16 as stated: the weight of each node of the filtered view is the sum of
\* the weights of the retained links incident to it at the current threshold.
C16_ViewWeightIsSumOfRetainedLinks_AsStated ==
    Loaded =>
        LET f == filteredData(data, minEdgeWeight)
        IN  \A k \in 1..Len(f.nodes) :
                f.nodes[k].weight
                    = Number(SumWeights(f.links, IncidentTo(f.links, f.nodes[k].id)))

\* C16 amended: at every threshold the weight of each node of the filtered view
\* is the weight attached at load time, the sum of the weights of all links of
\* the document incident to it (a self-loop once), whether retained or not.
C16_ViewWeightIsLoadTimeWeight ==
    Loaded =>
        \A w \in Thresholds :
            LET f == filteredData(data, w)
            IN  \A k \in 1..Len(f.nodes) :
                    f.nodes[k].weight
                        = Number(SumWeights(json.links, IncidentTo(json.links, f.nodes[k].id)))

\* The view at the current threshold shows a node one of whose weighted links
\* is not retained.
C16_Witness ==
    /\ Loaded
    /\ LET f == filteredData(data, minEdgeWeight)
       IN  \E k \in 1..Len(f.nodes) : \E i \in IncidentTo(json.links, f.nodes[k].id) :
               /\ WeightOf(json.links[i]) > 0
               /\ ~KeepLink(json.links[i], minEdgeWeight)

\* The number of nationalities of a node list that sort before nat.
RankAmong(nodes, nat) ==
    LET present == {NationalityOf(nodes[i]) : i \in 1..Len(nodes)}
        pos(x) == CHOOSE i \in 1..Len(CodeUnitOrder) : CodeUnitOrder[i] = x
    IN  Cardinality({x \in present : pos(x) < pos(nat)})

C18_ThresholdInSliderRange ==
    /\ [](minEdgeWeight \in Int /\ SliderMin <= minEdgeWeight /\ minEdgeWeight <= SliderMax)
    /\ [][minEdgeWeight' # minEdgeWeight => LifecycleSetMinEdgeWeight]_vars

\* The range input has been moved to its upper end.
C18_Witness == minEdgeWeight = SliderMax /\ status = "loaded"

\* C19: when the threshold exceeds the weight of every link that is not a
\* self-loop, filteredData returns no links and no nodes; so it does for
\* threshold 10 on Scenario A's graph.
C19_ThresholdAboveAllWeightsGivesEmptyView ==
    /\ Loaded =>
        \A w \in Thresholds :
            (\A i \in 1..Len(data.links) :
                IsSelfLoop(data.links[i]) \/ WeightOf(data.links[i]) < w)
            => filteredData(data, w) = [nodes |-> << >>, links |-> << >>]
    /\ ScenarioALoaded =>
        filteredData(data, 10) = [nodes |-> << >>, links |-> << >>]

\* The current threshold exceeds the weight of every link of a loaded graph
\* that has a weighted link between two different nodes.
C19_Witness ==
    /\ Loaded
    /\ \E i \in 1..Len(data.links) :
        ~IsSelfLoop(data.links[i]) /\ WeightOf(data.links[i]) > 0
    /\ \A i \in 1..Len(data.links) :
        IsSelfLoop(data.links[i]) \/ WeightOf(data.links[i]) < minEdgeWeight
    /\ view = [nodes |-> << >>, links |-> << >>]

\* C20: at most one force simulation is active on the graph's node objects;
\* a re-render never leaves an earlier simulation running.
C20_AtMostOneSimulationActive == simulations <= 1

\* C21: fetchCollaborationData is called exactly once, by the mount effect;
\* no step after it issues another fetch, neither the failure of the fetch nor
\* a change of the threshold.
C21_FetchIssuedOnceAtMount ==
    /\ [](fetches <= 1)
    /\ [](status # "pending" => fetches = 1)
    /\ [][fetches' # fetches => Mount]_vars

\* The one fetch has failed and the threshold has been changed afterwards.
C21_Witness ==
    status = "failed" /\ minEdgeWeight # InitialMinEdgeWeight /\ fetches = 1

\* C22: the distinct nationalities of the loaded nodes (a missing one counting
\* as 'Unknown') are sorted and the one at sorted position k, counted from 0, is
\* drawn in palette colour k mod 10; two nationalities get the same colour
\* exactly when their positions are congruent modulo 10.
C22_ColourIsSortedPositionModuloPalette ==
    Loaded =>
        /\ \A i \in 1..Len(data.nodes) :
            NodeFill(data, data.nodes[i])
                = RankAmong(json.nodes, NationalityOf(data.nodes[i])) % PaletteSize
        /\ \A i, j \in 1..Len(data.nodes) :
            (NodeFill(data, data.nodes[i]) = NodeFill(data, data.nodes[j]))
                <=> (RankAmong(json.nodes, NationalityOf(data.nodes[i])) % PaletteSize
                        = RankAmong(json.nodes, NationalityOf(data.nodes[j])) % PaletteSize)

\* A graph with more nationalities than palette colours is loaded, and two
\* artists of different nationality are drawn in the same colour.
C22_Witness ==
    /\ Loaded
    /\ Len(colorScale(data)) > PaletteSize
    /\ \E i, j \in 1..Len(data.nodes) :
        /\ NationalityOf(data.nodes[i]) # NationalityOf(data.nodes[j])
        /\ NodeFill(data, data.nodes[i]) = NodeFill(data, data.nodes[j])

\* C23: once the graph is loaded, what is drawn in the SVG is exactly the
\* filtered view for the current threshold; nothing of an earlier rendering
\* remains when the current threshold leaves no links.
C23_DrawnIsCurrentFilteredView ==
    status = "loaded" => svg = filteredData(data, minEdgeWeight)

LinkHighlighted(i) == linkAttrs[i] = [stroke |-> "#ff9900", opacity |-> "0.8"]
NodeHighlighted(k) == nodeAttrs[k] = [stroke |-> "#ff9900", width |-> "3"]

\* C24: while the pointer is over node d, a drawn link is highlighted iff it is
\* a link of the filtered view for the current threshold with d at one end, and
\* a drawn node is highlighted iff it is d or the other end of such a link.
C24_HighlightIsNeighbourhoodInCurrentView ==
    hovered # Undefined =>
        LET d == hovered[1]
            current == filteredData(data, minEdgeWeight)
            incident == {l \in Range(current.links) :
                            EndId(l.source) = d \/ EndId(l.target) = d}
        IN  /\ \A i \in 1..Len(svg.links) :
                LinkHighlighted(i) <=> svg.links[i] \in incident
            /\ \A k \in 1..Len(svg.nodes) :
                NodeHighlighted(k) <=>
                    \/ svg.nodes[k].id = d
                    \/ \E l \in incident :
                        svg.nodes[k].id \in {EndId(l.source), EndId(l.target)}

\* C25: after a mouseout every drawn link has the stroke and opacity and every
\* drawn node the stroke and stroke width it was drawn with, and the tooltip is
\* hidden.
C25_MouseOutRestoresDrawing ==
    lastHover = "mouseout" =>
        /\ linkAttrs = DrawnLinkAttrs(svg)
        /\ nodeAttrs = DrawnNodeAttrs(svg)
        /\ \A i \in 1..Len(svg.links) : ~LinkHighlighted(i)
        /\ \A k \in 1..Len(svg.nodes) : ~NodeHighlighted(k)
        /\ tooltip = "hidden"

\* The pointer has left a node that has a neighbour in the drawing.
C25_Witness ==
    /\ lastHover = "mouseout"
    /\ Len(svg.links) > 0
    /\ tooltip = "hidden"

\* The exhibition count of a country for a year, 0 when it has no record.
CountFor(country, y) ==
    LET js == {j \in 1..Len(country.data) : country.data[j].e_startdate = y}
    IN  IF js = {} THEN 0
        ELSE country.data[CHOOSE j \in js : \A k \in js : j <= k].num_exhibitions

C27_SortDirectionToggles ==
    [][sortConfig' # sortConfig =>
        /\ sortConfig' # << >>
        /\ sortConfig'[1].direction =
            IF /\ sortConfig # << >>
               /\ sortConfig[1].key = sortConfig'[1].key
               /\ sortConfig[1].direction = "asc"
            THEN "desc" ELSE "asc"
        /\ (sortConfig # << >> /\ sortConfig[1].key # sortConfig'[1].key)
            => sortConfig'[1].direction = "asc"
        /\ (sortConfig # << >> /\ sortConfig[1].key = sortConfig'[1].key)
            => sortConfig'[1].direction # sortConfig[1].direction]_vars

\* A column has been clicked twice in a row.
C27_Witness == sortConfig = <<[key |-> "numExhibitions", direction |-> "desc"]>>

\* C30: the exhibition data arrive only while loadData waits for fetchData,
\* after fetchWorldMap has settled; worldMap and data are set only after both
\* fetches have settled; the map is drawn only when both are non-null; and
\* after a failed fetch its state stays null and nothing is drawn.
C30_LoadsSequencedAndGateRendering ==
    /\ [][exhibitionData' # exhibitionData => loadData = "fetchData"]_vars
    /\ [][mapData' # mapData => loadData = "fetchWorldMap"]_vars
    /\ []((worldMap # "null" \/ geoData # << >>) => loadData \in {"setData", "done"})
    /\ [](paths # << >> => (worldMap # "null" /\ geoData # << >>))
    /\ []((loadData = "done" /\ mapData = "null") => (worldMap = "null" /\ paths = << >>))
    /\ []((loadData = "done" /\ exhibitionData = << >>)
            => (geoData = << >> /\ paths = << >>))

\* The world map failed to load, the data arrived, the year has been changed
\* since, and nothing is drawn.
C30_Witness ==
    /\ loadData = "done"
    /\ mapData = "null"
    /\ geoData # << >>
    /\ year # InitialYear
    /\ paths = << >>

\* The entries of a list that pass the filter of the timeline.
HasCodeAndExhibitions(entry) == entry.country_3 # "" /\ entry.num_exhibitions > 0

\* The list's entries as the filtered table carries them, stamped with year y.
Stamped(list, y) == {[list[i] EXCEPT !.year = <<y>>] : i \in 1..Len(list)}

\* C28: in GeoView3 the map drawn shows the selected artist's entries for the
\* selected year, or for all years when no year is selected, and never the
\* entries of a year selected before.
C28_MapAgreesWithYearLabel ==
    (drawn3 # << >> /\ filteredData3 # << >>) =>
        LET fd == filteredData3[1]
            entries == IF selectedYear = << >> THEN Flat(fd, YearKeys(DOMAIN fd))
                       ELSE IF selectedYear[1] \in DOMAIN fd THEN fd[selectedYear[1]]
                       ELSE << >>
        IN  drawn3[1] = MapOf(entries)

\* C29: in GeoView3, with an artist of the data selected, the filtered table
\* holds per year exactly the artist's entries with a country code and
\* num_exhibitions > 0, the years without such an entry are left out, years is
\* the remaining years in ascending order, and a change of artist leaves no
\* year selected.
C29_FilterByArtist ==
    /\ [](selectedArtist # << >> /\ data3 # << >>
            /\ Len(ArtistRecord(data3[1], selectedArtist[1])) > 0 =>
          LET artistData == ArtistRecord(data3[1], selectedArtist[1])[1].value
              passing(y) == {i \in 1..Len(artistData[y]) :
                                HasCodeAndExhibitions(artistData[y][i])}
          IN  /\ filteredData3 # << >>
              /\ DOMAIN filteredData3[1] = {y \in DOMAIN artistData : passing(y) # {}}
              /\ \A y \in DOMAIN filteredData3[1] :
                    LET rows == filteredData3[1][y]
                    IN  /\ Len(rows) = Cardinality(passing(y))
                        /\ {rows[i] : i \in 1..Len(rows)} =
                             {[artistData[y][i] EXCEPT !.year = <<y>>] : i \in passing(y)}
                        /\ \A i \in 1..Len(rows) : rows[i] \in Stamped(artistData[y], y)
              /\ {years[i] : i \in 1..Len(years)} = DOMAIN filteredData3[1]
              /\ \A i \in 1..Len(years) : \A j \in 1..Len(years) :
                    i < j => years[i] < years[j])
    /\ [][selectedArtist' # selectedArtist => selectedYear' = << >>]_vars

\* An artist is selected and drawn with no year selected; one of the artist's
\* years is left out of the table, another lost an entry, and two years remain.
C29_Witness ==
    /\ selectedArtist = <<"Amiet">>
    /\ selectedYear = << >>
    /\ drawn3 # << >>
    /\ Len(years) >= 2
    /\ \E y \in DOMAIN data3[1][1].value : y \notin DOMAIN filteredData3[1]
    /\ \E y \in DOMAIN filteredData3[1] :
          Len(filteredData3[1][y]) < Len(data3[1][1].value[y])

TypeOK ==
    /\ json \in Documents
    /\ status \in {"pending", "loaded", "failed", "crashed"}
    /\ minEdgeWeight \in SliderMin..SliderMax
====
